---- MODULE Spec2Model ----
(***************************************************************************)
(* Model of pkg/controller/common/webhook/customresourcedeletion.go: the   *)
(* validating webhook that guards CustomResourceDefinition deletion.       *)
(*                                                                         *)
(* One request is handled at a time (requests share no mutable state).     *)
(* Handle is split at its blocking calls so that the cancellation of the   *)
(* request's context can interleave with the namespace queries:            *)
(*   Receive -> Decode -> Classify -> ListNamespace* -> LoopExit -> Return *)
(* Namespaces are the numbers 1..MaxNs, standing for "ns-a", "ns-b", ...   *)
(* in lexical order.                                                       *)
(***************************************************************************)
EXTENDS Integers, Sequences, FiniteSets

VARIABLES managedNamespace, items, failing, req, ctxDone, pc, crd, idx,
          queries, classified, resp

vars == <<managedNamespace, items, failing, req, ctxDone, pc, crd, idx,
          queries, classified, resp>>

\* ---------------------------------------------------------------- bounds
MaxNs == 2
MaxItems == 1

Namespaces == 1..MaxNs

\* ------------------------------------------------------------- constants
StatusOK == 200
StatusBadRequest == 400
StatusForbidden == 403

webhookPath == "/validate-prevent-crd-deletion-k8s-elastic-co"

\* The group list of isElasticCRD.
ElasticGroups ==
    { "agent.k8s.elastic.co",
      "apm.k8s.elastic.co",
      "autoscaling.k8s.elastic.co",
      "beat.k8s.elastic.co",
      "elasticsearch.k8s.elastic.co",
      "enterprise-search.k8s.elastic.co",
      "kibana.k8s.elastic.co",
      "logstash.k8s.elastic.co",
      "maps.k8s.elastic.co",
      "stackconfigpolicy.k8s.elastic.co" }

\* ------------------------------------------------------------ environment
\* apiVersion groups a raw object may carry in its own type metadata.  A
\* CustomResourceDefinition carries "apiextensions.k8s.io"; the decoder is
\* built over the manager's scheme, which this file does not fix, so
\* objects of other groups that decode are kept as possible inputs.
ApiGroups ==
    { "apiextensions.k8s.io", "elasticsearch.k8s.elastic.co",
      "logstash.k8s.elastic.co", "unrelated.example.com", "" }

\* spec.group values of the definition under deletion (the defined type).
SpecGroups == { "elasticsearch.k8s.elastic.co", "unrelated.example.com" }

\* Groups whose instances the store may hold in a namespace.
StoreGroups == { "elasticsearch.k8s.elastic.co", "unrelated.example.com" }

\* Shapes of req.Object.Raw as the decoder sees them.
RawShapes == { "empty", "malformed", "mismatch", "object" }

Requests ==
    [ raw : RawShapes, apiGroup : ApiGroups, specGroup : SpecGroups ]

NoCRD == [ decoded |-> FALSE, apiGroup |-> "", apiVersion |-> "",
           kind |-> "", specGroup |-> "" ]

NoRequest == [ raw |-> "empty", apiGroup |-> "", specGroup |-> "" ]

NoResponse == [ allowed |-> FALSE, code |-> 0, message |-> "" ]

\* ------------------------------------------------------ library functions
\* admission.Allowed / Denied / Errored of controller-runtime.
Allowed(message) ==
    [ allowed |-> TRUE, code |-> StatusOK, message |-> message ]

Denied(message) ==
    [ allowed |-> FALSE, code |-> StatusForbidden, message |-> message ]

Errored(code, err) ==
    [ allowed |-> FALSE, code |-> code, message |-> err ]

\* admission.Decoder.DecodeRaw(req.Object, crd): the error (or "" for nil).
DecodeRaw(r) ==
    CASE r.raw = "empty"     -> "there is no content to decode"
      [] r.raw = "malformed" -> "couldn't get version/kind; json parse error"
      [] r.raw = "mismatch"  -> "unable to decode into *v1.CustomResourceDefinition"
      [] OTHER               -> ""

\* The object DecodeRaw fills in: the type metadata is the object's own
\* apiVersion/kind, the defined type lives under spec.
DecodedCRD(r) ==
    [ decoded |-> TRUE, apiGroup |-> r.apiGroup, apiVersion |-> "v1",
      kind |-> "CustomResourceDefinition", specGroup |-> r.specGroup ]

\* crd.GroupVersionKind(): metav1.TypeMeta.GroupVersionKind, i.e.
\* schema.FromAPIVersionAndKind(crd.APIVersion, crd.Kind).
GroupVersionKind(c) ==
    [ Group |-> c.apiGroup, Version |-> c.apiVersion, Kind |-> c.kind ]

\* Number of live objects of group g in namespace ns.
ItemsOf(g, ns) == IF g \in StoreGroups THEN items[g][ns] ELSE 0

\* The context isInUse hands to client.List.
ListContext == "background"

\* client.List(ctx, ul, client.InNamespace(ns)): an error, or the items.
\* A context that is done fails the call; context.Background() never is.
List(ctx, gvk, ns) ==
    IF ctx = "request" /\ ctxDone
    THEN [ err |-> "context canceled", n |-> 0 ]
    ELSE IF ns \in failing
         THEN [ err |-> "transport error", n |-> 0 ]
         ELSE [ err |-> "", n |-> ItemsOf(gvk.Group, ns) ]

\* Mutant: the members in the opposite order.
RECURSIVE AsSlice_Reversed(_)
AsSlice_Reversed(S) ==
    IF S = {} THEN << >>
    ELSE LET m == CHOOSE x \in S : \A y \in S : x >= y
         IN  <<m>> \o AsSlice_Reversed(S \ {m})

\* set.StringSet.AsSlice(): the members of the set as a slice, in the
\* deterministic (lexical) order the design asks for.
RECURSIVE AsSlice(_)
AsSlice(S) ==
    IF S = {} THEN << >>
    ELSE LET m == CHOOSE x \in S : \A y \in S : x <= y
         IN  <<m>> \o AsSlice(S \ {m})

\* ----------------------------------------------------------------- code
\* Mutant: any non-empty group counts as an Elastic one.
isElasticCRD_AnyGroup(gvk) == gvk.Group # ""

isElasticCRD(gvk) == gvk.Group \in ElasticGroups

\* Mutant: the reason string of another guard.
DeniedMessage_Other == "deletion is not allowed"

DeniedMessage == "deletion of Elastic CRDs is not allowed"

\* Mutant: one item is not enough to be in use.
listInUse_OffByOne(r) == r.err # "" \/ r.n > 1

\* Mutant: a failed query is skipped instead of treated as in use.
listInUse_FailOpen(r) == r.err = "" /\ r.n > 0

\* Mutant: an empty result counts as in use.
listInUse_Geq(r) == r.err # "" \/ r.n >= 0

\* isInUse lines 99-105: does this query's result end the loop with true?
listInUse(r) == r.err # "" \/ r.n > 0

Init ==
    /\ managedNamespace \in SUBSET Namespaces
    /\ items = [ g \in StoreGroups |-> [ ns \in Namespaces |-> 0 ] ]
    /\ failing = {}
    /\ req = NoRequest
    /\ ctxDone = FALSE
    /\ pc = "idle"
    /\ crd = NoCRD
    /\ idx = 1
    /\ queries = << >>
    /\ classified = FALSE
    /\ resp = NoResponse

\* A request reaches the webhook server; the store is whatever it is now.
Receive ==
    /\ pc = "idle"
    /\ req' \in Requests
    /\ items' \in [ StoreGroups -> [ Namespaces -> 0..MaxItems ] ]
    /\ failing' \in SUBSET Namespaces
    /\ ctxDone' = FALSE
    /\ pc' = "received"
    /\ crd' = NoCRD
    /\ idx' = 1
    /\ queries' = << >>
    /\ classified' = FALSE
    /\ resp' = NoResponse
    /\ UNCHANGED managedNamespace

\* Mutant: the decode error is dropped and Handle carries on.
Decode_FallThrough ==
    /\ pc = "received"
    /\ crd' = DecodedCRD(req)
    /\ pc' = "decoded"
    /\ UNCHANGED <<managedNamespace, items, failing, req, ctxDone, idx,
                   queries, classified, resp>>

\* Handle, lines 61-65.
Decode ==
    /\ pc = "received"
    /\ LET err == DecodeRaw(req)
       IN  IF err # ""
           THEN /\ resp' = Errored(StatusBadRequest, err)
                /\ pc' = "responded"
                /\ crd' = crd
           ELSE /\ crd' = DecodedCRD(req)
                /\ pc' = "decoded"
                /\ resp' = resp
    /\ UNCHANGED <<managedNamespace, items, failing, req, ctxDone, idx,
                   queries, classified>>

\* Handle, line 67 left operand (and line 71 when it is false).
Classify ==
    /\ pc = "decoded"
    /\ classified' = TRUE
    /\ IF isElasticCRD(GroupVersionKind(crd))
       THEN /\ pc' = "listing"
            /\ idx' = 1
            /\ resp' = resp
       ELSE /\ pc' = "responded"
            /\ resp' = Allowed("")
            /\ idx' = idx
    /\ UNCHANGED <<managedNamespace, items, failing, req, ctxDone, crd,
                   queries>>

\* isInUse, one iteration of the loop of lines 97-106, and Handle line 68
\* when it returns true.
ListNamespace ==
    /\ pc = "listing"
    /\ idx <= Len(AsSlice(managedNamespace))
    /\ LET ns == AsSlice(managedNamespace)[idx]
           r  == List(ListContext, GroupVersionKind(crd), ns)
       IN  /\ queries' = Append(queries,
                   [ ns |-> ns, ctx |-> ListContext, ctxDone |-> ctxDone,
                     err |-> r.err, n |-> r.n ])
           /\ IF listInUse(r)
              THEN /\ resp' = Denied(DeniedMessage)
                   /\ pc' = "responded"
                   /\ idx' = idx
              ELSE /\ idx' = idx + 1
                   /\ UNCHANGED <<resp, pc>>
    /\ UNCHANGED <<managedNamespace, items, failing, req, ctxDone, crd,
                   classified>>

\* Mutant: isInUse returns true when the loop runs out.
LoopExit_InUse ==
    /\ pc = "listing"
    /\ idx > Len(AsSlice(managedNamespace))
    /\ resp' = Denied(DeniedMessage)
    /\ pc' = "responded"
    /\ UNCHANGED <<managedNamespace, items, failing, req, ctxDone, crd, idx,
                   queries, classified>>

\* isInUse line 107 (the loop is over, return false) and Handle line 71.
LoopExit ==
    /\ pc = "listing"
    /\ idx > Len(AsSlice(managedNamespace))
    /\ resp' = Allowed("")
    /\ pc' = "responded"
    /\ UNCHANGED <<managedNamespace, items, failing, req, ctxDone, crd, idx,
                   queries, classified>>

\* The caller cancels the request's context, or its deadline passes.
CancelContext ==
    /\ pc \in { "received", "decoded", "listing" }
    /\ ~ctxDone
    /\ ctxDone' = TRUE
    /\ UNCHANGED <<managedNamespace, items, failing, req, pc, crd, idx,
                   queries, classified, resp>>

\* The response is written back; nothing of the request is kept (the
\* webhook holds no per-request state).
Return ==
    /\ pc = "responded"
    /\ pc' = "idle"
    /\ req' = NoRequest
    /\ items' = [ g \in StoreGroups |-> [ ns \in Namespaces |-> 0 ] ]
    /\ failing' = {}
    /\ ctxDone' = FALSE
    /\ crd' = NoCRD
    /\ idx' = 1
    /\ queries' = << >>
    /\ classified' = FALSE
    /\ resp' = NoResponse
    /\ UNCHANGED managedNamespace

Next ==
    \/ Receive
    \/ Decode
    \/ Classify
    \/ ListNamespace
    \/ LoopExit
    \/ CancelContext
    \/ Return

Spec == Init /\ [][Next]_vars

TypeOK ==
    /\ managedNamespace \in SUBSET Namespaces
    /\ pc \in { "idle", "received", "decoded", "listing", "responded" }
    /\ ctxDone \in BOOLEAN
    /\ classified \in BOOLEAN
    /\ idx \in 1..(MaxNs + 1)
    /\ Len(queries) <= MaxNs

\* ------------------------------------------------------------ properties
Responded == pc = "responded"

IsAllowed(r) == r.allowed /\ r.code = StatusOK

IsDenied(r) == ~r.allowed /\ r.code = StatusForbidden

\* The identity Handle classifies and lists by is in an Elastic group.
ProtectedIdentity == crd.decoded /\ crd.apiGroup \in ElasticGroups

Positive(q) == q.err = "" /\ q.n > 0

TimesQueried(ns) == Cardinality({ i \in 1..Len(queries) : queries[i].ns = ns })

\* C1: a deletion request for a definition whose defined type is in an
\* Elastic group, with a live instance of that type in a managed namespace,
\* is answered Denied and never Allowed.
C1_InUseElasticCRDIsDenied ==
    ( /\ Responded
      /\ crd.decoded
      /\ crd.specGroup \in ElasticGroups
      /\ \E ns \in managedNamespace :
            ns \notin failing /\ ItemsOf(crd.specGroup, ns) > 0 )
    => (IsDenied(resp) /\ ~resp.allowed)

\* C2: a decoded request whose identity group is not an Elastic group is
\* Allowed and no List query is issued, whatever the store holds and
\* whichever namespaces would fail to list.
C2_UnprotectedAllowedWithoutQuery ==
    ( /\ pc \in { "decoded", "listing", "responded" }
      /\ crd.decoded
      /\ GroupVersionKind(crd).Group \notin ElasticGroups )
    => /\ queries = << >>
       /\ pc # "listing"
       /\ Responded => (IsAllowed(resp) /\ resp.message = "")

C2_Witness ==
    /\ Responded
    /\ crd.decoded
    /\ crd.apiGroup = "unrelated.example.com"
    /\ \E ns \in managedNamespace : ItemsOf("unrelated.example.com", ns) > 0
    /\ \E ns \in managedNamespace : ns \in failing
    /\ IsAllowed(resp)
    /\ queries = << >>

\* C3: for a protected identity, a managed namespace holding an instance
\* means Denied, and the query that returned a non-empty result is the last
\* query of the request.
C3_PositiveDeniesAndShortCircuits ==
    /\ \A i \in 1..Len(queries) :
          Positive(queries[i]) =>
             (i = Len(queries) /\ Responded /\ IsDenied(resp))
    /\ ( /\ Responded
         /\ ProtectedIdentity
         /\ \E ns \in managedNamespace :
               ns \notin failing /\ ItemsOf(crd.apiGroup, ns) > 0 )
       => IsDenied(resp)

C3_Witness ==
    /\ Responded
    /\ ProtectedIdentity
    /\ Len(queries) >= 1
    /\ Positive(queries[Len(queries)])
    /\ Len(queries) < Cardinality(managedNamespace)
    /\ IsDenied(resp)

\* C4: for a protected identity, a List query that returns an error ends
\* the usage check (it is the last query) and the response is Denied: not
\* Allowed, and not an Errored response carrying the query error.
C4_QueryErrorFailsClosed ==
    \A i \in 1..Len(queries) :
       queries[i].err # "" =>
          /\ i = Len(queries)
          /\ Responded
          /\ IsDenied(resp)
          /\ ~resp.allowed
          /\ resp.message # queries[i].err
          /\ resp.message = "deletion of Elastic CRDs is not allowed"

C4_Witness ==
    /\ Responded
    /\ ProtectedIdentity
    /\ Len(queries) >= 1
    /\ queries[Len(queries)].err # ""
    /\ Len(queries) < Cardinality(managedNamespace)
    /\ IsDenied(resp)

\* C5: when the raw object does not decode, the response is Errored with
\* status 400 and the decode cause; the classifier is not run and no List
\* query is issued, whatever the object's groups are.
C5_DecodeFailureIsBadRequest ==
    (pc # "idle" /\ req.raw # "object") =>
       /\ ~classified
       /\ ~crd.decoded
       /\ queries = << >>
       /\ pc \in { "received", "responded" }
       /\ Responded =>
             /\ ~resp.allowed
             /\ resp.code = 400
             /\ resp.message # ""
             /\ resp.message = DecodeRaw(req)

C5_Witness ==
    /\ Responded
    /\ req.raw = "malformed"
    /\ req.apiGroup \in ElasticGroups
    /\ \E ns \in managedNamespace : ItemsOf(req.apiGroup, ns) > 0
    /\ resp.code = 400

\* C6: for a protected identity, when every managed namespace lists zero
\* instances without error, the response is Allowed and every managed
\* namespace has been queried exactly once.
C6_AllEmptyAllowedAfterFullScan ==
    ( /\ Responded
      /\ ProtectedIdentity
      /\ \A ns \in managedNamespace :
            ns \notin failing /\ ItemsOf(crd.apiGroup, ns) = 0 )
    => /\ IsAllowed(resp)
       /\ \A ns \in managedNamespace : TimesQueried(ns) = 1
       /\ Len(queries) = Cardinality(managedNamespace)

C6_Witness ==
    /\ Responded
    /\ ProtectedIdentity
    /\ Cardinality(managedNamespace) >= 2
    /\ \A ns \in managedNamespace :
          ns \notin failing /\ ItemsOf(crd.apiGroup, ns) = 0
    /\ Len(queries) = Cardinality(managedNamespace)
    /\ IsAllowed(resp)

\* C7 (as stated): every Denied response carries the reason "deletion of
\* protected resource-type is not allowed" and every Allowed response an
\* empty message.
C7_DeniedReasonAsStated ==
    Responded =>
       /\ IsDenied(resp) =>
             resp.message = "deletion of protected resource-type is not allowed"
       /\ IsAllowed(resp) => resp.message = ""

\* C7 (amended): every Denied response carries the reason "deletion of
\* Elastic CRDs is not allowed" and every Allowed response an empty message.
C7_DeniedReason ==
    Responded =>
       /\ IsDenied(resp) =>
             resp.message = "deletion of Elastic CRDs is not allowed"
       /\ IsAllowed(resp) => resp.message = ""

C7_Witness ==
    /\ Responded
    /\ IsDenied(resp)
    /\ Len(queries) >= 1

C9_QueriesHonourRequestContext ==
    \A i \in 1..Len(queries) :
       queries[i].ctxDone =>
          (queries[i].err = "context canceled" /\ queries[i].n = 0)

\* C10: with an empty managed namespace set, every decoded request is
\* Allowed and no List query is issued, also for protected identities whose
\* instances exist in the cluster.
C10_EmptyManagedSetAllowsAll ==
    managedNamespace = {} =>
       /\ queries = << >>
       /\ (Responded /\ crd.decoded) => (IsAllowed(resp) /\ resp.message = "")

C10_Witness ==
    /\ managedNamespace = {}
    /\ Responded
    /\ ProtectedIdentity
    /\ \E ns \in Namespaces : ItemsOf(crd.apiGroup, ns) > 0
    /\ IsAllowed(resp)
    /\ queries = << >>
====
